---- MODULE Spec2Model ----
(***************************************************************************)
(* PatchCore anomaly detection notebook (code_scratch.ipynb).              *)
(*                                                                         *)
(* Tensors are modelled the way torch stores them: a shape and a           *)
(* contiguous row-major data sequence, so that reshape / view reinterpret  *)
(* the same storage and .T permutes it.  Floating point values are         *)
(* modelled as exact fixed-point integers: the output of                   *)
(* AvgPool2d / AdaptiveAvgPool2d carries the factor                        *)
(* AvgKernel*AvgKernel*WinUnit (a mean is kept as a scaled sum), and a     *)
(* square root is rounded down to the unit of that scale.                  *)
(*                                                                         *)
(* The pretrained ResNet-50 is an external collaborator with frozen        *)
(* weights: it is a fixed function from an image to the outputs of its     *)
(* layer2 and layer3 blocks.                                               *)
(***************************************************************************)
EXTENDS Integers, Sequences, FiniteSets

VARIABLES
    pc,                 \* position in the notebook phase being modelled
    err,                \* exception raised by the last cell, "none" if none
    input,              \* batch handed to the last backbone(...) call
    features,           \* self.features of resnet_feature_extractor
    patch,              \* value returned by the last forward call
    ref,                \* history: an earlier forward call (input, result)
    train_good,         \* the images of the train/good folder, in iteration order
    memory_bank_list,   \* memory_bank while it is a python list
    memory_bank,        \* memory_bank once it is a tensor
    pool,               \* history: memory_bank right after torch.cat
    selected_indices,
    distances,
    dist_score,
    s_star,
    segm_map,
    y_score_good,
    y_score,
    y_true,
    class_idx,          \* position in ['crack','cut','good','hole','print']
    thresholds,
    f1_scores,
    best_threshold

vars == <<pc, err, input, features, patch, ref, train_good, memory_bank_list, memory_bank,
          pool, selected_indices, distances, dist_score, s_star, segm_map,
          y_score_good, y_score, y_true, class_idx, thresholds, f1_scores,
          best_threshold>>

(***************************************************************************)
(* Bounds of the model                                                     *)
(***************************************************************************)
\* spatial side of the layer2 output (28 for the 224x224 input of the code)
Layer2Side == 5
\* channels of the layer2 / layer3 outputs (512 / 1024 in ResNet-50)
Layer2Channels == 1
Layer3Channels == 2
\* distinct images, and distinct activation values the backbone produces
NumImages == 3
ActivationLevels == 4

Images == 1..NumImages

\* the notebook hands forward one image at a time (unsqueeze(0)); a batch of
\* two is what batched processing adds
BatchSizes == {1, 2}

Batches == UNION {[1..b -> Images] : b \in BatchSizes}

(***************************************************************************)
(* Tensors                                                                 *)
(***************************************************************************)
NoTensor == [shape |-> <<>>, data |-> <<>>]

RECURSIVE Prod(_)
Prod(s) == IF s = <<>> THEN 1 ELSE s[1] * Prod(Tail(s))

Numel(t) == Prod(t.shape)

\* a sequence held as evaluated storage
Storage(s) == s \o <<>>

\* s[1] + ... + s[n]
RECURSIVE SumSeq(_, _)
SumSeq(s, n) == IF n = 0 THEN 0 ELSE s[n] + SumSeq(s, n - 1)

\* element [b, c, h, w] of a contiguous 4-d tensor, indices from 0
At4(t, b, c, h, w) ==
    t.data[((b * t.shape[2] + c) * t.shape[3] + h) * t.shape[4] + w + 1]

\* element [i, j] of a contiguous 2-d tensor, indices from 0
At2(t, i, j) == t.data[i * t.shape[2] + j + 1]

\* row i of a 2-d tensor, as a sequence
Row(t, i) == [j \in 1..t.shape[2] |-> At2(t, i, j - 1)]

\* the indices [b, c, h, w] of position k (from 1) of a contiguous 4-d tensor
IdxB(k, sh) == (k - 1) \div (sh[2] * sh[3] * sh[4])
IdxC(k, sh) == ((k - 1) \div (sh[3] * sh[4])) % sh[2]
IdxH(k, sh) == ((k - 1) \div sh[4]) % sh[3]
IdxW(k, sh) == (k - 1) % sh[4]

(***************************************************************************)
(* The frozen backbone                                                     *)
(***************************************************************************)
\* layer3 halves the resolution of layer2 (3x3 convolution, stride 2, pad 1)
Layer3Side == (Layer2Side - 1) \div 2 + 1

\* activation of channel ch at (r, c) of the given layer for image img
Activation(img, layer, ch, r, c) ==
    (img * 3 + layer + ch * 2 + r * r + c * (img + 1) + r * c * layer)
        % ActivationLevels

\* output of the given layer for the batch x, with the given channels and side
LayerOutput(x, layer, chans, side) ==
    LET sh == <<Len(x), chans, side, side>>
    IN  [shape |-> sh,
         data  |-> Storage([k \in 1..Prod(sh) |->
                      Activation(x[IdxB(k, sh) + 1], layer,
                                 IdxC(k, sh), IdxH(k, sh), IdxW(k, sh))])]

ModelLayer2(x) == LayerOutput(x, 2, Layer2Channels, Layer2Side)

ModelLayer3(x) == LayerOutput(x, 3, Layer3Channels, Layer3Side)

(***************************************************************************)
(* resnet_feature_extractor                                                *)
(***************************************************************************)
\* hook: self.features.append(output)
Hook(fs, output) == Append(fs, output)

\* self.model(input): the layer2 hook fires before the layer3 hook
ModelCall(fs, x) == Hook(Hook(fs, ModelLayer2(x)), ModelLayer3(x))

KeepFeatures(fs) == fs

\* self.features = []
ResetFeatures(fs) == <<>>

AvgKernel == 3

\* smallest common multiple of the window areas of an upsampling adaptive pool
WinUnit == 2 * 2

\* torch.nn.AvgPool2d(3, stride=1); the mean is kept as the window sum
AvgPool2d(t) ==
    LET sh == <<t.shape[1], t.shape[2],
                t.shape[3] - AvgKernel + 1, t.shape[4] - AvgKernel + 1>>
        f(b, ch, r, c) ==
            LET win == [k \in 1..(AvgKernel * AvgKernel) |->
                          At4(t, b, ch, r + (k - 1) \div AvgKernel,
                                        c + ((k - 1) % AvgKernel))]
            IN  SumSeq(win, AvgKernel * AvgKernel)
    IN  [shape |-> sh,
         data  |-> Storage([k \in 1..Prod(sh) |->
                      f(IdxB(k, sh), IdxC(k, sh), IdxH(k, sh), IdxW(k, sh))])]

\* window of output index i when n inputs are pooled to S outputs
WinStart(i, n, S) == (i * n) \div S
WinEnd(i, n, S) == ((i + 1) * n + S - 1) \div S

\* torch.nn.AdaptiveAvgPool2d(S); the mean is kept in units of 1/WinUnit
AdaptiveAvgPool2d(t, S) ==
    LET sh == <<t.shape[1], t.shape[2], S, S>>
        f(b, ch, r, c) ==
            LET r0 == WinStart(r, t.shape[3], S)
                c0 == WinStart(c, t.shape[4], S)
                nr == WinEnd(r, t.shape[3], S) - r0
                nc == WinEnd(c, t.shape[4], S) - c0
                win == [k \in 1..(nr * nc) |->
                          At4(t, b, ch, r0 + (k - 1) \div nc, c0 + ((k - 1) % nc))]
            IN  (SumSeq(win, nr * nc) * WinUnit) \div (nr * nc)
    IN  [shape |-> sh,
         data  |-> Storage([k \in 1..Prod(sh) |->
                      f(IdxB(k, sh), IdxC(k, sh), IdxH(k, sh), IdxW(k, sh))])]

FmapSizeLast(fs) == fs[Len(fs)].shape[3]

\* fmap_size = self.features[0].shape[-2]
FmapSize(fs) == fs[1].shape[3]

\* resized_maps = [self.resize(self.avg(fmap)) for fmap in self.features]
ResizedMaps(fs) ==
    Storage([i \in 1..Len(fs) |->
                AdaptiveAvgPool2d(AvgPool2d(fs[i]), FmapSize(fs))])

\* channels of maps[1..k]
RECURSIVE ChannelsUpTo(_, _)
ChannelsUpTo(maps, k) ==
    IF k = 0 THEN 0 ELSE maps[k].shape[2] + ChannelsUpTo(maps, k - 1)

\* torch.cat needs equal sizes in every dimension but the one it joins
CatOk(maps) ==
    \A i \in 1..Len(maps) :
        /\ maps[i].shape[1] = maps[1].shape[1]
        /\ maps[i].shape[3] = maps[1].shape[3]
        /\ maps[i].shape[4] = maps[1].shape[4]

\* torch.cat(resized_maps, 1)
Cat1(maps) ==
    LET sh == <<maps[1].shape[1], ChannelsUpTo(maps, Len(maps)),
                maps[1].shape[3], maps[1].shape[4]>>
        f(b, ch, r, c) ==
            LET k == CHOOSE j \in 1..Len(maps) :
                         /\ ChannelsUpTo(maps, j - 1) <= ch
                         /\ ch < ChannelsUpTo(maps, j)
            IN  At4(maps[k], b, ch - ChannelsUpTo(maps, k - 1), r, c)
    IN  [shape |-> sh,
         data  |-> Storage([k \in 1..Prod(sh) |->
                      f(IdxB(k, sh), IdxC(k, sh), IdxH(k, sh), IdxW(k, sh))])]

\* t.reshape(rows, -1): the same storage read as rows x (numel / rows)
Reshape(t, rows) == [shape |-> <<rows, Numel(t) \div rows>>, data |-> t.data]

\* t.T of a 2-d tensor
Transpose(t) ==
    [shape |-> <<t.shape[2], t.shape[1]>>,
     data  |-> Storage([k \in 1..Numel(t) |->
                  At2(t, (k - 1) % t.shape[1], (k - 1) \div t.shape[1])])]

ReshapeNoTranspose(p) ==
    [shape |-> <<Numel(p) \div p.shape[2], p.shape[2]>>, data |-> p.data]

\* patch.reshape(patch.shape[1], -1).T
ReshapeT(p) == Transpose(Reshape(p, p.shape[2]))

\* the part of forward after the backbone ran
Aggregate(fs) == ReshapeT(Cat1(ResizedMaps(fs)))

\* forward fails in torch.cat when the captured maps do not fit together
ForwardOk(fs) == CatOk(ResizedMaps(fs))

(***************************************************************************)
(* Specification of the feature extractor: forward calls on batches        *)
(***************************************************************************)
NoRef == [input |-> <<>>, patch |-> NoTensor, between |-> FALSE]

\* a freshly constructed extractor: nothing captured, nothing returned yet
InitExtractor ==
    /\ err = "none"
    /\ input = <<>>
    /\ features = <<>>
    /\ patch = NoTensor
    /\ ref = NoRef

\* memory_bank = [] and no sampling done
InitNoBank ==
    /\ memory_bank_list = <<>>
    /\ memory_bank = NoTensor
    /\ pool = NoTensor
    /\ selected_indices = <<>>

\* nothing scored yet
InitNoScores ==
    /\ distances = NoTensor
    /\ dist_score = <<>>
    /\ s_star = 0
    /\ segm_map = NoTensor
    /\ y_score_good = <<>>

\* y_score = [], y_true = [] and no threshold computed
InitNoCalibration ==
    /\ y_score = <<>>
    /\ y_true = <<>>
    /\ class_idx = 1
    /\ thresholds = <<>>
    /\ f1_scores = <<>>
    /\ best_threshold = [num |-> 0, den |-> 0]

\* feature = backbone(x): resnet_feature_extractor.forward
Forward(x) ==
    /\ input' = x
    /\ features' = ModelCall(ResetFeatures(features), x)
    /\ IF ForwardOk(features')
       THEN patch' = Aggregate(features') /\ err' = "none"
       ELSE patch' = NoTensor /\ err' = "RuntimeError"

\* a forward call; the history variable ref remembers the first call, and
\* whether another input was extracted since
ForwardCall ==
    /\ err = "none"
    /\ \E x \in Batches :
        /\ Forward(x)
        /\ ref' = IF ref = NoRef /\ err' = "none"
                  THEN [input |-> x, patch |-> patch', between |-> FALSE]
                  ELSE IF ref.input # x
                       THEN [ref EXCEPT !.between = TRUE]
                       ELSE ref
    /\ UNCHANGED <<pc, train_good, memory_bank_list, memory_bank, pool,
                   selected_indices, distances, dist_score, s_star, segm_map,
                   y_score_good, y_score, y_true, class_idx, thresholds,
                   f1_scores, best_threshold>>

InitExtract ==
    /\ pc = "idle"
    /\ train_good = <<>>
    /\ InitExtractor
    /\ InitNoBank
    /\ InitNoScores
    /\ InitNoCalibration

NextExtract == ForwardCall

SpecExtract == InitExtract /\ [][NextExtract]_vars

\* backbone(image.unsqueeze(0)) on a fresh extractor: the grid of one image
ExtractOne(img) == Aggregate(ModelCall(<<>>, <<img>>))

\* C6: in any sequence of forward calls the captured-activation list holds
\* exactly the two maps of the current call, the layer2 map first, and a call
\* whose input equals that of the first call returns the grid the first call
\* returned, whatever was extracted in between.
ExtractKeepsNoCrossCallState ==
    (input # <<>> /\ err = "none") =>
        /\ Len(features) = 2
        /\ features[1] = ModelLayer2(input)
        /\ features[2] = ModelLayer3(input)
        /\ (ref.input = input => patch = ref.patch)

\* a call repeating the first call's input after a different input was extracted
RepeatedCallAfterOthers ==
    /\ input # <<>>
    /\ err = "none"
    /\ ref.input = input
    /\ ref.between

\* C7: the rows a batched call returns for image b are the rows a call on
\* image b alone returns, in row-major order of b, r, c.
BatchedEqualsSingle ==
    (input # <<>> /\ err = "none") =>
        \A b \in 1..Len(input) :
            LET one == ExtractOne(input[b])
                N == one.shape[1]
            IN  \A i \in 0..(N - 1) :
                    Row(patch, (b - 1) * N + i) = Row(one, i)

\* C9 (as the spec states it): the grid side is the side of the later-stage,
\* coarser captured map.
GridSideIsCoarserMapSide ==
    (Len(input) = 1 /\ err = "none") =>
        LET S == features[2].shape[3]
        IN  patch.shape = <<S * S, features[1].shape[2] + features[2].shape[2]>>

\* C9 (amended): the grid side S is the side of the first captured map, the
\* earlier-stage layer2 output, which is the finer of the two; both smoothed
\* maps are resampled to S x S and extract returns S*S vectors of dimension
\* D = channels of layer2 + channels of layer3.
GridSideIsLayer2MapSide ==
    (Len(input) = 1 /\ err = "none") =>
        LET S == features[1].shape[3]
        IN  /\ features[1].shape = <<1, Layer2Channels, Layer2Side, Layer2Side>>
            /\ features[2].shape = <<1, Layer3Channels, Layer3Side, Layer3Side>>
            /\ S > features[2].shape[3]
            /\ \A i \in 1..2 :
                   /\ ResizedMaps(features)[i].shape[3] = S
                   /\ ResizedMaps(features)[i].shape[4] = S
            /\ patch.shape = <<S * S, Layer2Channels + Layer3Channels>>
            /\ Len(patch.data) = S * S * (Layer2Channels + Layer3Channels)

\* a single image has been extracted
SingleImageExtracted == Len(input) = 1 /\ err = "none" /\ patch # NoTensor

(***************************************************************************)
(* Memory bank: pooling and random subsampling                             *)
(***************************************************************************)
\* largest train/good folder, and seeds of the random generator
MaxGood == 3
NumSeeds == 24

Seeds == 0..(NumSeeds - 1)

Folders == UNION {[1..n -> Images] : n \in 0..MaxGood}

\* torch.cat(list, dim=0) of 2-d tensors: the rows one after the other
RECURSIVE CatData(_, _)
CatData(list, k) ==
    IF k = 0 THEN <<>> ELSE CatData(list, k - 1) \o list[k].data

RECURSIVE RowsUpTo(_, _)
RowsUpTo(list, k) ==
    IF k = 0 THEN 0 ELSE list[k].shape[1] + RowsUpTo(list, k - 1)

Cat0(list) ==
    [shape |-> <<RowsUpTo(list, Len(list)), list[1].shape[2]>>,
     data  |-> CatData(list, Len(list))]

RECURSIVE GCD(_, _)
GCD(a, b) == IF b = 0 THEN a ELSE GCD(b, a % b)

\* The generator is a seeded permutation of 0..n-1: position i holds
\* (offset + i * stride) mod n with a stride coprime to n.
Stride(n, seed) ==
    CHOOSE a \in 1..(2 * n) :
        /\ GCD(a, n) = 1
        /\ a >= 1 + (seed % n)
        /\ \A c \in (1 + (seed % n))..(a - 1) : GCD(c, n) # 1

Offset(n, seed) == (seed * seed + 3 * seed) % n

RandomChoiceWithReplacement(n, size, seed) ==
    [i \in 1..size |-> (Offset(n, seed) + (i - 1) * (seed % n)) % n]

\* np.random.choice(n, size=size, replace=False): a prefix of a permutation
RandomChoice(n, size, seed) ==
    [i \in 1..size |-> (Offset(n, seed) + (i - 1) * Stride(n, seed)) % n]

SampleDivisor == 10

SampleSizeRounded(n) == (n + SampleDivisor \div 2) \div SampleDivisor

\* len(memory_bank)//10
SampleSize(n) == n \div SampleDivisor

\* memory_bank[selected_indices]
IndexSelect(t, idx) ==
    [shape |-> <<Len(idx), t.shape[2]>>,
     data  |-> Storage([k \in 1..(Len(idx) * t.shape[2]) |->
                  At2(t, idx[(k - 1) \div t.shape[2] + 1], (k - 1) % t.shape[2])])]

\* loop body of the pooling cell: the next image of the folder
PoolImage ==
    /\ pc = "pooling"
    /\ Len(memory_bank_list) < Len(train_good)
    /\ Forward(<<train_good[Len(memory_bank_list) + 1]>>)
    /\ memory_bank_list' = Append(memory_bank_list, patch')
    /\ UNCHANGED <<pc, ref, train_good, memory_bank, pool, selected_indices,
                   distances, dist_score, s_star, segm_map, y_score_good,
                   y_score, y_true, class_idx, thresholds, f1_scores,
                   best_threshold>>

\* print(memory_bank[0].shape) on an empty folder
PoolEmptyFolder ==
    /\ pc = "pooling"
    /\ train_good = <<>>
    /\ pc' = "failed"
    /\ err' = "IndexError"
    /\ UNCHANGED <<input, features, patch, ref, train_good, memory_bank_list,
                   memory_bank, pool, selected_indices, distances, dist_score,
                   s_star, segm_map, y_score_good, y_score, y_true, class_idx,
                   thresholds, f1_scores, best_threshold>>

\* memory_bank = torch.cat(memory_bank, dim=0)
CatBank ==
    /\ pc = "pooling"
    /\ train_good # <<>>
    /\ Len(memory_bank_list) = Len(train_good)
    /\ memory_bank' = Cat0(memory_bank_list)
    /\ pool' = memory_bank'
    /\ pc' = "pooled"
    /\ UNCHANGED <<err, input, features, patch, ref, train_good,
                   memory_bank_list, selected_indices, distances, dist_score,
                   s_star, segm_map, y_score_good, y_score, y_true, class_idx,
                   thresholds, f1_scores, best_threshold>>

\* the random sampling cell
SampleBank ==
    /\ pc = "pooled"
    /\ \E seed \in Seeds :
        /\ selected_indices' =
               RandomChoice(memory_bank.shape[1],
                            SampleSize(memory_bank.shape[1]), seed)
        /\ memory_bank' = IndexSelect(memory_bank, selected_indices')
    /\ pc' = "sampled"
    /\ UNCHANGED <<err, input, features, patch, ref, train_good,
                   memory_bank_list, pool, distances, dist_score, s_star,
                   segm_map, y_score_good, y_score, y_true, class_idx,
                   thresholds, f1_scores, best_threshold>>

InitBank ==
    /\ pc = "pooling"
    /\ train_good \in Folders
    /\ InitExtractor
    /\ InitNoBank
    /\ InitNoScores
    /\ InitNoCalibration

NextBank == PoolImage \/ PoolEmptyFolder \/ CatBank \/ SampleBank

SpecBank == InitBank /\ [][NextBank]_vars

\* round(n / d) as python rounds: halves go to the even neighbour
RoundHalfEven(n, d) ==
    LET q == n \div d
        r == n % d
    IN  IF 2 * r < d THEN q
        ELSE IF 2 * r > d THEN q + 1
        ELSE IF q % 2 = 0 THEN q ELSE q + 1

\* C2 (as the spec states it, for the fraction 1/10 of the code): the bank
\* has round(P/10) vectors and, the fraction being positive, is not empty.
BankSizeIsRoundedFraction ==
    pc = "sampled" =>
        /\ memory_bank.shape[1] = RoundHalfEven(pool.shape[1], SampleDivisor)
        /\ memory_bank.shape[1] # 0

\* C2 (amended): with the code's fixed fraction of one tenth, a pool of P
\* vectors is subsampled to exactly floor(P/10) vectors, so the bank is empty
\* exactly when P < 10; a pool of 3920 vectors gives 392.
BankSizeIsFloorOfTenth ==
    /\ SampleSize(3920) = 392
    /\ pc = "sampled" =>
        LET P == pool.shape[1]
            k == memory_bank.shape[1]
        IN  /\ Len(selected_indices) = k
            /\ SampleDivisor * k <= P
            /\ P < SampleDivisor * (k + 1)
            /\ (k = 0 <=> P < SampleDivisor)
            /\ Len(memory_bank.data) = k * pool.shape[2]

\* a pool whose size is not a multiple of ten has been subsampled
SampledFromUnevenPool ==
    /\ pc = "sampled"
    /\ pool.shape[1] % SampleDivisor # 0
    /\ memory_bank.shape[1] > 0

\* C3: the selected indices are pairwise distinct and lie in 0..P-1, every
\* bank vector is the pooled vector at its selected index, and the pool is
\* the extracted grids of the folder's images, one after the other.
BankIsSampleWithoutReplacement ==
    pc = "sampled" =>
        LET P == pool.shape[1]
            k == Len(selected_indices)
        IN  /\ \A i \in 1..k : selected_indices[i] \in 0..(P - 1)
            /\ \A i, j \in 1..k :
                   i # j => selected_indices[i] # selected_indices[j]
            /\ memory_bank.shape = <<k, pool.shape[2]>>
            /\ \A i \in 1..k :
                   Row(memory_bank, i - 1) = Row(pool, selected_indices[i])
            /\ P = RowsUpTo(memory_bank_list, Len(memory_bank_list))
            /\ \A m \in 1..Len(train_good) :
                   LET grid == ExtractOne(train_good[m])
                       first == RowsUpTo(memory_bank_list, m - 1)
                   IN  \A i \in 0..(grid.shape[1] - 1) :
                           Row(pool, first + i) = Row(grid, i)

\* a bank of several vectors drawn from a pool of several images
SeveralVectorsSampled ==
    /\ pc = "sampled"
    /\ Len(train_good) >= 2
    /\ Len(selected_indices) >= 2

(***************************************************************************)
(* Scoring an image against the memory bank                                *)
(***************************************************************************)
RECURSIVE ISqrtIn(_, _, _)
ISqrtIn(n, lo, hi) ==
    IF lo = hi THEN lo
    ELSE LET mid == (lo + hi + 1) \div 2
         IN  IF mid * mid <= n THEN ISqrtIn(n, mid, hi)
             ELSE ISqrtIn(n, lo, mid - 1)

\* the square root, rounded down to the fixed-point unit
ISqrt(n) == ISqrtIn(n, 0, n)

\* sum of the squared differences of two vectors
SumSqDiff(u, v) ==
    SumSeq([k \in 1..Len(u) |-> (u[k] - v[k]) * (u[k] - v[k])], Len(u))

\* torch.cdist(x, y, p=2.0): element [i, j] is the L2 distance of row i of x
\* and row j of y
CDist(x, y) ==
    [shape |-> <<x.shape[1], y.shape[1]>>,
     data  |-> Storage([k \in 1..(x.shape[1] * y.shape[1]) |->
                  ISqrt(SumSqDiff(Row(x, (k - 1) \div y.shape[1]),
                                  Row(y, (k - 1) % y.shape[1])))])]

SeqMin(s) == CHOOSE m \in {s[k] : k \in 1..Len(s)} :
                 \A k \in 1..Len(s) : m <= s[k]

SeqMax(s) == CHOOSE m \in {s[k] : k \in 1..Len(s)} :
                 \A k \in 1..Len(s) : m >= s[k]

\* dist_score, _ = torch.min(distances, dim=1)
MinDim1(d) == Storage([i \in 1..d.shape[1] |-> SeqMin(Row(d, i - 1))])

SStarMin(ds) == SeqMin(ds)

\* s_star = torch.max(dist_score)
SStar(ds) == SeqMax(ds)

\* the 28 of view(1, 1, 28, 28): the side of the layer2 map
ViewSide == Layer2Side

\* dist_score.view(1, 1, side, side)
View4(ds, side) == [shape |-> <<1, 1, side, side>>, data |-> ds]

\* 224 / 28: the upsampling factor of the heat map
UpFactor == 8

\* torch.nn.functional.interpolate(t, size=(out, out), mode='bilinear'),
\* align_corners=False; values are kept in units of 1/(2*out)^2
Interpolate(t, out) ==
    LET n == t.shape[3]
        sh == <<t.shape[1], t.shape[2], out, out>>
        den == 2 * out
        \* source coordinate of destination index i, in units of 1/den
        Src(i) == IF (2 * i + 1) * n - out < 0 THEN 0 ELSE (2 * i + 1) * n - out
        Lo(i) == Src(i) \div den
        Hi(i) == IF Lo(i) < n - 1 THEN Lo(i) + 1 ELSE Lo(i)
        W(i) == Src(i) % den
        f(b, ch, r, c) ==
              (den - W(r)) * (den - W(c)) * At4(t, b, ch, Lo(r), Lo(c))
            + (den - W(r)) * W(c) * At4(t, b, ch, Lo(r), Hi(c))
            + W(r) * (den - W(c)) * At4(t, b, ch, Hi(r), Lo(c))
            + W(r) * W(c) * At4(t, b, ch, Hi(r), Hi(c))
    IN  [shape |-> sh,
         data  |-> Storage([k \in 1..Prod(sh) |->
                      f(IdxB(k, sh), IdxC(k, sh), IdxH(k, sh), IdxW(k, sh))])]

\* distances, dist_score, s_star, segm_map of the image just extracted
ScoreFeatures ==
    /\ distances' = CDist(patch', memory_bank)
    /\ dist_score' = MinDim1(distances')
    /\ s_star' = SStar(dist_score')
    /\ segm_map' = View4(dist_score', ViewSide)

\* loop body of the good-image scoring cell: the next image of the folder
ScoreGood ==
    /\ pc = "scoring"
    /\ Len(y_score_good) < Len(train_good)
    /\ Forward(<<train_good[Len(y_score_good) + 1]>>)
    /\ ScoreFeatures
    /\ y_score_good' = Append(y_score_good, s_star')
    /\ UNCHANGED <<pc, ref, train_good, memory_bank_list, memory_bank, pool,
                   selected_indices, y_score, y_true, class_idx, thresholds,
                   f1_scores, best_threshold>>

\* "Visualize one anomaly image": scoring up to the S x S map
VisualizeScore ==
    /\ pc = "scoring"
    /\ \E img \in Images : Forward(<<img>>)
    /\ ScoreFeatures
    /\ pc' = "visualizing"
    /\ UNCHANGED <<ref, train_good, memory_bank_list, memory_bank, pool,
                   selected_indices, y_score_good, y_score, y_true, class_idx,
                   thresholds, f1_scores, best_threshold>>

\* "Visualize one anomaly image": upsampling the map to the image resolution
VisualizeUpsample ==
    /\ pc = "visualizing"
    /\ segm_map' = Interpolate(segm_map, ViewSide * UpFactor)
    /\ pc' = "scoring"
    /\ UNCHANGED <<err, input, features, patch, ref, train_good,
                   memory_bank_list, memory_bank, pool, selected_indices,
                   distances, dist_score, s_star, y_score_good, y_score,
                   y_true, class_idx, thresholds, f1_scores, best_threshold>>

\* the state after the bank of a one-image folder has been built
InitScore ==
    /\ pc = "scoring"
    /\ err = "none"
    /\ ref = NoRef
    /\ \E g \in Images, seed \in Seeds :
        /\ train_good = <<g>>
        /\ input = <<g>>
        /\ features = ModelCall(<<>>, <<g>>)
        /\ patch = ExtractOne(g)
        /\ memory_bank_list = <<ExtractOne(g)>>
        /\ pool = Cat0(<<ExtractOne(g)>>)
        /\ selected_indices =
               RandomChoice(Layer2Side * Layer2Side,
                            SampleSize(Layer2Side * Layer2Side), seed)
        /\ memory_bank =
               IndexSelect(Cat0(<<ExtractOne(g)>>),
                           RandomChoice(Layer2Side * Layer2Side,
                                        SampleSize(Layer2Side * Layer2Side), seed))
    /\ InitNoScores
    /\ InitNoCalibration

NextScore == ScoreGood \/ VisualizeScore \/ VisualizeUpsample

SpecScore == InitScore /\ [][NextScore]_vars

\* d is the L2 distance of u and v, rounded down to the fixed-point unit
IsL2Distance(d, u, v) ==
    /\ d >= 0
    /\ d * d <= SumSqDiff(u, v)
    /\ SumSqDiff(u, v) < (d + 1) * (d + 1)

\* C1: once an image is scored against the (non-empty) bank, every entry of
\* the per-patch sequence is the least L2 distance from that patch to a bank
\* vector, the image score is >= 0 and is the greatest entry, and it is the
\* greatest value of the S x S map before upsampling.
ScoreIsWorstPatchNearestDistance ==
    dist_score # <<>> =>
        LET N == patch.shape[1]
            M == memory_bank.shape[1]
        IN  /\ M > 0
            /\ Len(dist_score) = N
            /\ \A i \in 1..N :
                   LET q == Row(patch, i - 1)
                   IN  /\ \E j \in 1..M :
                              IsL2Distance(dist_score[i], q, Row(memory_bank, j - 1))
                       /\ \A j \in 1..M :
                              dist_score[i] * dist_score[i]
                                  <= SumSqDiff(q, Row(memory_bank, j - 1))
            /\ s_star >= 0
            /\ \E i \in 1..N : dist_score[i] = s_star
            /\ \A i \in 1..N : dist_score[i] <= s_star
            /\ pc = "visualizing" =>
                   /\ \E r, c \in 0..(ViewSide - 1) : At4(segm_map, 0, 0, r, c) = s_star
                   /\ \A r, c \in 0..(ViewSide - 1) : At4(segm_map, 0, 0, r, c) <= s_star

\* an image outside the reference folder has been scored, with patches at
\* different distances from the bank
ForeignImageScored ==
    /\ pc = "visualizing"
    /\ input # train_good
    /\ s_star > 0
    /\ \E i \in 1..Len(dist_score) : dist_score[i] < s_star

\* C10: for a single image the vector of grid cell (r, c) is row r*S + c of
\* the extractor's output; the S x S map holds the distance of index i in
\* cell (i div S, i mod S), and reading the map back row by row gives the
\* distance sequence again.
RowMajorIndexInvariant ==
    (dist_score # <<>> /\ Len(input) = 1) =>
        LET S == ViewSide
            maps == ResizedMaps(features)
        IN  /\ patch.shape[1] = S * S
            /\ \A r, c \in 0..(S - 1) :
                   /\ \A d \in 0..(Layer2Channels - 1) :
                          At2(patch, r * S + c, d) = At4(maps[1], 0, d, r, c)
                   /\ \A d \in 0..(Layer3Channels - 1) :
                          At2(patch, r * S + c, Layer2Channels + d)
                              = At4(maps[2], 0, d, r, c)
            /\ pc = "visualizing" =>
                   /\ segm_map.shape = <<1, 1, S, S>>
                   /\ \A i \in 0..(S * S - 1) :
                          At4(segm_map, 0, 0, i \div S, i % S) = dist_score[i + 1]
                   /\ [i \in 1..(S * S) |->
                          At4(segm_map, 0, 0, (i - 1) \div S, (i - 1) % S)]
                      = dist_score

\* a map whose cells differ has been folded from a scored image
MapFoldedFromScoredImage ==
    /\ pc = "visualizing"
    /\ Len(input) = 1
    /\ \E i, j \in 1..Len(dist_score) : dist_score[i] # dist_score[j]
    /\ \E r, c \in 0..(ViewSide - 1) :
           At2(patch, r * ViewSide + c, 0) # At2(patch, c * ViewSide + r, 0)

(***************************************************************************)
(* Threshold calibration                                                   *)
(*                                                                         *)
(* Here the image scores are inputs: any non-negative value may come out   *)
(* of the scoring loops.  A threshold is the rational num / den.           *)
(***************************************************************************)
\* scores range over 0..MaxScoreVal; at most MaxScored good and MaxTest test
\* images; multipliers of the deviation range over 0..MaxK
MaxScoreVal == 2
MaxScored == 4
MaxTest == 4
MaxK == 4

ScoreVals == 0..MaxScoreVal

\* fixed-point unit of the extracted features and of a standard deviation
FixUnit == AvgKernel * AvgKernel * WinUnit

\* the 3 of mean + 3 * std
SigmaK == 3

\* np.mean and np.std of the scores: mean = sum / n, and std is the square
\* root of the mean squared deviation, sqrt(sum((n*x - sum)^2) / n) / n
ScoreSum(y) == SumSeq(y, Len(y))

DeviationSq(y) ==
    SumSeq([i \in 1..Len(y) |->
               (Len(y) * y[i] - ScoreSum(y)) * (Len(y) * y[i] - ScoreSum(y))],
           Len(y)) \div Len(y)

\* n * std, in units of 1/FixUnit, rounded down
ScaledStd(y) == ISqrt(DeviationSq(y) * FixUnit * FixUnit)

StatisticalThresholdBelow(y, k) ==
    [num |-> ScoreSum(y) * FixUnit - k * ScaledStd(y), den |-> Len(y) * FixUnit]

\* np.mean(y) + k * np.std(y)
StatisticalThreshold(y, k) ==
    [num |-> ScoreSum(y) * FixUnit + k * ScaledStd(y), den |-> Len(y) * FixUnit]

\* the good-image scoring loop appends one score per image
GoodScoreAppended ==
    /\ pc = "good_scoring"
    /\ Len(y_score_good) < MaxScored
    /\ \E sc \in ScoreVals : y_score_good' = Append(y_score_good, sc)
    /\ UNCHANGED <<pc, err, input, features, patch, ref, train_good,
                   memory_bank_list, memory_bank, pool, selected_indices,
                   distances, dist_score, s_star, segm_map, y_score, y_true,
                   class_idx, thresholds, f1_scores, best_threshold>>

\* best_threshold = np.mean(y_score_good) + 3 * np.std(y_score_good); the
\* folder the bank was built from holds at least one image
StatisticalCalibration ==
    /\ pc = "good_scoring"
    /\ y_score_good # <<>>
    /\ best_threshold' = StatisticalThreshold(y_score_good, SigmaK)
    /\ pc' = "thresholded"
    /\ UNCHANGED <<err, input, features, patch, ref, train_good,
                   memory_bank_list, memory_bank, pool, selected_indices,
                   distances, dist_score, s_star, segm_map, y_score_good,
                   y_score, y_true, class_idx, thresholds, f1_scores>>

InitStat ==
    /\ pc = "good_scoring"
    /\ train_good = <<>>
    /\ InitExtractor
    /\ InitNoBank
    /\ InitNoScores
    /\ InitNoCalibration

NextStat == GoodScoreAppended \/ StatisticalCalibration

SpecStat == InitStat /\ [][NextStat]_vars

\* n * sum(x^2) - sum(x)^2: n^2 times the population variance
ScaledVariance(y) ==
    Len(y) * SumSeq([i \in 1..Len(y) |-> y[i] * y[i]], Len(y))
        - ScoreSum(y) * ScoreSum(y)

\* C8: the statistical threshold is mean + 3 * population-stdev of the good
\* scores, the k = 3 instance of mean + k * stdev, which never decreases
\* when k grows.
StatisticalThresholdMonotoneInK ==
    pc = "thresholded" =>
        LET y == y_score_good
            n == Len(y)
            part == best_threshold.num - ScoreSum(y) * FixUnit
            sd == part \div SigmaK
        IN  /\ best_threshold.den = n * FixUnit
            /\ part = SigmaK * sd
            /\ sd >= 0
            /\ sd * sd <= ScaledVariance(y) * FixUnit * FixUnit
            /\ ScaledVariance(y) * FixUnit * FixUnit < (sd + 1) * (sd + 1)
            /\ best_threshold = StatisticalThreshold(y, SigmaK)
            /\ \A k1, k2 \in 0..MaxK :
                   k1 <= k2 =>
                       /\ StatisticalThreshold(y, k1).den
                              = StatisticalThreshold(y, k2).den
                       /\ StatisticalThreshold(y, k1).num
                              <= StatisticalThreshold(y, k2).num

\* a threshold has been computed from scores that are not all equal
ThresholdFromSpreadScores ==
    /\ pc = "thresholded"
    /\ best_threshold.num > ScoreSum(y_score_good) * FixUnit

(***************************************************************************)
(* Metric-optimal calibration: roc_curve, f1_score, argmax                 *)
(***************************************************************************)
Classes == <<"crack", "cut", "good", "hole", "print">>

\* thresholds[0] of roc_curve: np.inf (max(y_score) + 1 in older releases),
\* a value above every score
InfThreshold == MaxScoreVal + 1

\* number of samples with the given label and a score >= t
CountAtLeast(yt, ys, label, t) ==
    Cardinality({i \in 1..Len(ys) : yt[i] = label /\ ys[i] >= t})

\* the distinct scores, in descending order
RECURSIVE SortDesc(_)
SortDesc(S) ==
    IF S = {} THEN <<>>
    ELSE LET m == CHOOSE x \in S : \A z \in S : z <= x
         IN  <<m>> \o SortDesc(S \ {m})

DistinctDesc(ys) == SortDesc({ys[i] : i \in 1..Len(ys)})

RECURSIVE SelectSeqIdx(_, _, _)
SelectSeqIdx(s, keep, k) ==
    IF k = 0 THEN <<>>
    ELSE IF k \in keep THEN Append(SelectSeqIdx(s, keep, k - 1), s[k])
         ELSE SelectSeqIdx(s, keep, k - 1)

\* roc_curve(y_true, y_score)[2] with drop_intermediate=True: one point per
\* distinct score, the points inside a straight run of the curve dropped,
\* and a first threshold above every score
RocCurveThresholds(yt, ys) ==
    LET th == DistinctDesc(ys)
        m == Len(th)
        tps == [k \in 1..m |-> CountAtLeast(yt, ys, 1, th[k])]
        fps == [k \in 1..m |-> CountAtLeast(yt, ys, 0, th[k])]
        keep == IF m > 2
                THEN {1, m} \cup
                     {k \in 2..(m - 1) :
                        \/ fps[k + 1] - fps[k] # fps[k] - fps[k - 1]
                        \/ tps[k + 1] - tps[k] # tps[k] - tps[k - 1]}
                ELSE 1..m
    IN  <<InfThreshold>> \o SelectSeqIdx(th, keep, m)

\* f1_score(y_true, y_score >= t): 2tp / (2tp + fp + fn), 0 when undefined
F1Score(yt, ys, t) ==
    LET tp == CountAtLeast(yt, ys, 1, t)
        fp == CountAtLeast(yt, ys, 0, t)
        fn == Cardinality({i \in 1..Len(ys) : yt[i] = 1}) - tp
    IN  IF tp = 0 THEN [num |-> 0, den |-> 1]
        ELSE [num |-> 2 * tp, den |-> 2 * tp + fp + fn]

\* a <= b for rationals with positive denominators
RatLeq(a, b) == a.num * b.den <= b.num * a.den

ArgMaxLast(f) ==
    CHOOSE i \in 1..Len(f) :
        /\ \A j \in 1..Len(f) : RatLeq(f[j], f[i])
        /\ \A j \in (i + 1)..Len(f) : ~RatLeq(f[i], f[j])

\* np.argmax: the first index of a greatest entry
ArgMax(f) ==
    CHOOSE i \in 1..Len(f) :
        /\ \A j \in 1..Len(f) : RatLeq(f[j], f[i])
        /\ \A j \in 1..(i - 1) : ~RatLeq(f[i], f[j])

OneClass(yt) == \A i, j \in 1..Len(yt) : yt[i] = yt[j]

\* loop body of the test scoring cell: one image of the current class folder
TestImageScored ==
    /\ pc = "testing"
    /\ Len(y_score) < MaxTest
    /\ \E sc \in ScoreVals : y_score' = Append(y_score, sc)
    /\ y_true' = Append(y_true, IF Classes[class_idx] = "good" THEN 0 ELSE 1)
    /\ UNCHANGED <<pc, err, input, features, patch, ref, train_good,
                   memory_bank_list, memory_bank, pool, selected_indices,
                   distances, dist_score, s_star, segm_map, y_score_good,
                   class_idx, thresholds, f1_scores, best_threshold>>

\* the outer loop moves on to the next class folder
NextClassFolder ==
    /\ pc = "testing"
    /\ class_idx < Len(Classes)
    /\ class_idx' = class_idx + 1
    /\ UNCHANGED <<pc, err, input, features, patch, ref, train_good,
                   memory_bank_list, memory_bank, pool, selected_indices,
                   distances, dist_score, s_star, segm_map, y_score_good,
                   y_score, y_true, thresholds, f1_scores, best_threshold>>

\* the evaluation cell when roc_auc_score returns a value: with both classes
\* present, and with one class where roc_auc_score warns and returns nan
MetricCalibration ==
    /\ pc = "testing"
    /\ class_idx = Len(Classes)
    /\ y_true # <<>>
    /\ thresholds' = RocCurveThresholds(y_true, y_score)
    /\ f1_scores' = [k \in 1..Len(thresholds') |->
                        F1Score(y_true, y_score, thresholds'[k])]
    /\ best_threshold' = [num |-> thresholds'[ArgMax(f1_scores')], den |-> 1]
    /\ pc' = "evaluated"
    /\ UNCHANGED <<err, input, features, patch, ref, train_good,
                   memory_bank_list, memory_bank, pool, selected_indices,
                   distances, dist_score, s_star, segm_map, y_score_good,
                   y_score, y_true, class_idx>>

\* the evaluation cell when roc_auc_score raises ValueError for labels of
\* one class: the cell stops at its first statement
MetricCalibrationRaises ==
    /\ pc = "testing"
    /\ class_idx = Len(Classes)
    /\ y_true # <<>>
    /\ OneClass(y_true)
    /\ err' = "ValueError"
    /\ pc' = "evaluated"
    /\ UNCHANGED <<input, features, patch, ref, train_good, memory_bank_list,
                   memory_bank, pool, selected_indices, distances, dist_score,
                   s_star, segm_map, y_score_good, y_score, y_true, class_idx,
                   thresholds, f1_scores, best_threshold>>

InitMetric ==
    /\ pc = "testing"
    /\ train_good = <<>>
    /\ InitExtractor
    /\ InitNoBank
    /\ InitNoScores
    /\ InitNoCalibration

NextMetric ==
    TestImageScored \/ NextClassFolder \/ MetricCalibration
        \/ MetricCalibrationRaises

SpecMetric == InitMetric /\ [][NextMetric]_vars

\* F1 of predicting anomalous when score >= t, from the confusion counts
F1OfThreshold(t) ==
    LET tp == Cardinality({i \in 1..Len(y_score) : y_true[i] = 1 /\ y_score[i] >= t})
        fp == Cardinality({i \in 1..Len(y_score) : y_true[i] = 0 /\ y_score[i] >= t})
        fn == Cardinality({i \in 1..Len(y_score) : y_true[i] = 1 /\ y_score[i] < t})
    IN  IF tp = 0 THEN [num |-> 0, den |-> 1]
        ELSE [num |-> 2 * tp, den |-> 2 * tp + fp + fn]

\* the returned threshold is the first candidate of greatest F1, and no
\* observed score used as a threshold has a greater F1
ReturnedThresholdIsFirstF1Maximum ==
    /\ best_threshold.den = 1
    /\ Len(f1_scores) = Len(thresholds)
    /\ \A k \in 1..Len(thresholds) : f1_scores[k] = F1OfThreshold(thresholds[k])
    /\ \E i \in 1..Len(thresholds) :
           /\ best_threshold.num = thresholds[i]
           /\ \A j \in 1..Len(thresholds) : RatLeq(f1_scores[j], f1_scores[i])
           /\ \A j \in 1..(i - 1) : ~RatLeq(f1_scores[i], f1_scores[j])
    /\ \A j \in 1..Len(y_score) :
           RatLeq(F1OfThreshold(y_score[j]), F1OfThreshold(best_threshold.num))

\* C4 (as the spec states it), for labels of both classes: every observed
\* score is a candidate threshold, and the returned threshold is the first
\* candidate of greatest F1.
EveryObservedScoreIsCandidate ==
    (pc = "evaluated" /\ err = "none" /\ ~OneClass(y_true)) =>
        /\ \A j \in 1..Len(y_score) :
               \E k \in 1..Len(thresholds) : thresholds[k] = y_score[j]
        /\ ReturnedThresholdIsFirstF1Maximum

\* C4 (amended): the candidates are a value above every score followed by
\* observed scores in strictly descending order, among them the greatest and
\* the least observed score (scores inside a straight run of the ROC curve
\* are not candidates); a candidate predicts anomalous when score >=
\* candidate; the returned threshold is the first candidate of greatest F1,
\* and its F1 is >= the F1 of every observed score used as a threshold.
CandidatesAreRocCornersAndF1Maximal ==
    (pc = "evaluated" /\ err = "none") =>
        /\ thresholds[1] = InfThreshold
        /\ \A j \in 1..Len(y_score) : y_score[j] < thresholds[1]
        /\ Len(thresholds) >= 2
        /\ \A k \in 2..Len(thresholds) :
               /\ thresholds[k] < thresholds[k - 1]
               /\ \E j \in 1..Len(y_score) : thresholds[k] = y_score[j]
        /\ \A j \in 1..Len(y_score) :
               /\ y_score[j] <= thresholds[2]
               /\ y_score[j] >= thresholds[Len(thresholds)]
        /\ ReturnedThresholdIsFirstF1Maximum

\* a calibration over both classes in which an observed score was not a
\* candidate and the returned threshold is an observed score
CalibratedWithDroppedScore ==
    /\ pc = "evaluated"
    /\ err = "none"
    /\ ~OneClass(y_true)
    /\ \E j \in 1..Len(y_score) :
           \A k \in 1..Len(thresholds) : thresholds[k] # y_score[j]
    /\ \E j \in 1..Len(y_score) : best_threshold.num = y_score[j]

\* C5: when the labels hold one class only, the calibration fails with an
\* error and returns no threshold.
OneClassLabelsFailWithoutThreshold ==
    (pc = "evaluated" /\ OneClass(y_true)) =>
        /\ err # "none"
        /\ thresholds = <<>>
        /\ best_threshold = [num |-> 0, den |-> 0]

====
